---- MODULE Spec2Model ----
(***************************************************************************)
(* A model of swimmer.py: the Streamlit pages "Log Session", "Dashboard",  *)
(* "CSS Test" and "Targets" over the three worksheets Sessions, CSSTests   *)
(* and Targets of the spreadsheet.                                         *)
(*                                                                         *)
(* Numbers.  Python floats and ints are modelled by exact rationals        *)
(* <<n, d>> (d > 0, lowest terms); rounding of binary floating point is    *)
(* not modelled.  A standard deviation is the non-negative root of a       *)
(* rational, so the columns computed from it (std_rpe, monotony, strain)   *)
(* are kept as [nan, sq]: either NaN, or the non-negative number whose     *)
(* square is sq.                                                           *)
(*                                                                         *)
(* Rows.  A worksheet row is modelled by the columns that some computation *)
(* of the program reads or derives; the free-text columns of a session     *)
(* (sets_text, notes, team, css_pace, avg_pace, environment) and its       *)
(* timing columns are copied from the form to the row unchanged and are    *)
(* left out.                                                               *)
(***************************************************************************)
EXTENDS Integers, Sequences, FiniteSets, TLC

----------------------------------------------------------------------------
(* Bounds of the model *)

\* most rows the three worksheets hold together
MaxRows == 3

----------------------------------------------------------------------------
(* Exact arithmetic *)

Abs(x) == IF x < 0 THEN -x ELSE x

RECURSIVE GCD(_, _)
GCD(a, b) == IF b = 0 THEN a ELSE GCD(b, a % b)

\* the rational n/d in lowest terms with a positive denominator
Rat(n, d) ==
    LET s == IF d < 0 THEN -1 ELSE 1
        g == GCD(Abs(n), Abs(d))
    IN  <<(s * n) \div g, (s * d) \div g>>

Num(i) == <<i, 1>>
RAdd(p, q) == Rat(p[1] * q[2] + q[1] * p[2], p[2] * q[2])
RSub(p, q) == Rat(p[1] * q[2] - q[1] * p[2], p[2] * q[2])
RMul(p, q) == Rat(p[1] * q[1], p[2] * q[2])
RDiv(p, q) == Rat(p[1] * q[2], p[2] * q[1])
RLess(p, q) == p[1] * q[2] < q[1] * p[2]
RPos(p) == p[1] > 0

\* float NaN, and the non-negative real whose square is the rational r
NaN == [nan |-> TRUE, sq |-> Num(0)]
Root(r) == [nan |-> FALSE, sq |-> r]
\* a rational p >= 0 as such a real
AsRoot(p) == Root(RMul(p, p))

----------------------------------------------------------------------------
(* Calendar: datetime.date, strptime("%d-%b-%y"), str(date), to_datetime *)

MonthAbbr ==
    <<"Jan", "Feb", "Mar", "Apr", "May", "Jun",
      "Jul", "Aug", "Sep", "Oct", "Nov", "Dec">>
DayName ==
    <<"Monday", "Tuesday", "Wednesday", "Thursday", "Friday", "Saturday", "Sunday">>
DayAbbr == <<"Mon", "Tue", "Wed", "Thu", "Fri", "Sat", "Sun">>

IsLeap(y) == (y % 4 = 0) /\ ((y % 100 # 0) \/ (y % 400 = 0))

DaysInMonth(y, m) ==
    IF m = 2 THEN (IF IsLeap(y) THEN 29 ELSE 28)
    ELSE IF m \in {4, 6, 9, 11} THEN 30 ELSE 31

\* days of the year before the first of month m
DaysBeforeMonth(y, m) ==
    <<0, 31, 59, 90, 120, 151, 181, 212, 243, 273, 304, 334>>[m]
        + (IF m > 2 /\ IsLeap(y) THEN 1 ELSE 0)

\* date.toordinal(): 1 is 0001-01-01
toordinal(date) ==
    LET y == date.year - 1
    IN  y * 365 + (y \div 4) - (y \div 100) + (y \div 400)
        + DaysBeforeMonth(date.year, date.month) + date.day

\* date.weekday(): 0 = Monday .. 6 = Sunday
weekday(date) == (toordinal(date) + 6) % 7

\* the result of a strptime call that raises ValueError
ValueError == [year |-> 0, month |-> 0, day |-> 0]

\* strptime without the check of the day against the month's length
strptime_any_day(date_str) ==
    IF /\ date_str.sep = "-"
       /\ \E m \in 1..12 : MonthAbbr[m] = date_str.mon
       /\ date_str.yy \in 0..99
    THEN LET m == CHOOSE k \in 1..12 : MonthAbbr[k] = date_str.mon
             y == IF date_str.yy < 69 THEN 2000 + date_str.yy ELSE 1900 + date_str.yy
         IN  [year |-> y, month |-> m, day |-> date_str.dd]
    ELSE ValueError

\* datetime.datetime.strptime(date_str, "%d-%b-%y").date(), where the text
\* date_str is its fields: dd, sep1, mon, sep2, yy as typed
strptime(date_str) ==
    IF /\ date_str.sep = "-"
       /\ \E m \in 1..12 : MonthAbbr[m] = date_str.mon
       /\ date_str.yy \in 0..99
    THEN LET m == CHOOSE k \in 1..12 : MonthAbbr[k] = date_str.mon
             y == IF date_str.yy < 69 THEN 2000 + date_str.yy ELSE 1900 + date_str.yy
         IN  IF date_str.dd \in 1..DaysInMonth(y, m)
             THEN [year |-> y, month |-> m, day |-> date_str.dd]
             ELSE ValueError
    ELSE ValueError

\* str(date): the text "YYYY-MM-DD" as its three fields
str(date) == <<date.year, date.month, date.day>>

\* pd.to_datetime on such a text
to_datetime(text) == [year |-> text[1], month |-> text[2], day |-> text[3]]

\* Timestamp.to_period('W').start_time: the Monday of the date's week, as an
\* ordinal
week_start_time(date) == toordinal(date) - weekday(date)

RECURSIVE date_add(_, _)
\* date + datetime.timedelta(days = days), days >= 0
date_add(date, days) ==
    IF days = 0 THEN date
    ELSE LET next ==
                 IF date.day < DaysInMonth(date.year, date.month)
                 THEN [date EXCEPT !.day = date.day + 1]
                 ELSE IF date.month < 12
                 THEN [date EXCEPT !.month = date.month + 1, !.day = 1]
                 ELSE [year |-> date.year + 1, month |-> 1, day |-> 1]
         IN  date_add(next, days - 1)

\* date.strftime("%A") and date.strftime("%a %d-%b")
strftime_A(date) == DayName[weekday(date) + 1]
strftime_a_d_b(date) == <<DayAbbr[weekday(date) + 1], date.day, MonthAbbr[date.month]>>

----------------------------------------------------------------------------
(* What the forms can submit *)

\* texts typed into "Date (dd-mmm-yy)"
DateText(dd, sep, mon, yy) == [dd |-> dd, sep |-> sep, mon |-> mon, yy |-> yy]
DateTexts ==
    { DateText(4, "-", "Nov", 25),        \* a Tuesday
      DateText(9, "-", "Nov", 25),        \* the Sunday of the same week
      DateText(10, "-", "Nov", 25),       \* the Monday after
      DateText(31, "-", "Nov", 25),       \* no such day
      DateText(29, "-", "Feb", 25),       \* 2025 is not a leap year
      DateText(4, "/", "Nov", 25),        \* wrong separator
      DateText(4, "-", "November", 25) }  \* month not abbreviated

\* st.selectbox("Swimmer", ["BVH", "AVH", "AA", "FGQ"]), in alphabetical order
SwimmerOptions == <<"AA", "AVH", "BVH", "FGQ">>

\* the texts among them that are dates written dd-mmm-yy
ValidDateTexts == { t \in DateTexts : t.dd < 29 /\ t.sep = "-" /\ t.mon = "Nov" }

\* <<swimmer, distance_m, rpe>> of the sessions whose weekly aggregates are
\* examined
SessionInputs == {<<"AVH", 1000, 4>>, <<"BVH", 1000, 4>>, <<"BVH", 2000, 6>>}

\* st.number_input(min_value = 0.0): seconds
TimeInputs == {Num(0), Num(60), Num(130)}

\* the Targets form
KmTargetInputs == {Num(10), Rat(125, 10)}

\* datetime.date.today(): a Wednesday and the Thursday after it
ClockInputs == { [year |-> 2025, month |-> 11, day |-> d] : d \in 5..6 }

\* one clock reading for each weekday, across the end of a month
WeekClockInputs ==
    { [year |-> 2025, month |-> 11, day |-> d] : d \in 26..30 }
        \cup { [year |-> 2025, month |-> 12, day |-> d] : d \in 1..2 }

----------------------------------------------------------------------------
(* State *)

VARIABLES
    Sessions,           \* worksheet "Sessions": its rows, in append order
    CSSTests,           \* worksheet "CSSTests"
    Targets,            \* worksheet "Targets"
    training_schedule,  \* the weekday -> description dict of the dashboard
    page,               \* the page last run
    inputs,             \* what that run read: its form, or the clock
    message,            \* its st.error / st.success / st.write outcome
    weekly_df,          \* the weekly aggregate the dashboard last computed
    next_session        \* the two lines written under "Next Training Session"

vars ==
    <<Sessions, CSSTests, Targets, training_schedule, page, inputs, message,
      weekly_df, next_session>>

tables == <<Sessions, CSSTests, Targets>>

TotalRows == Len(Sessions) + Len(CSSTests) + Len(Targets)

----------------------------------------------------------------------------
(* Record store *)

\* worksheet.append_row(list(data.values()))
append_row(worksheet, row) == Append(worksheet, row)

save_session(session_data) ==
    /\ Sessions' = append_row(Sessions, session_data)
    /\ UNCHANGED <<CSSTests, Targets>>

save_css_test(test_data) ==
    /\ CSSTests' = append_row(CSSTests, test_data)
    /\ UNCHANGED <<Sessions, Targets>>

\* a save that overwrites the swimmer's earlier target for the same week
save_target_upsert(target_data) ==
    /\ Targets' =
        IF \E i \in DOMAIN Targets :
              /\ Targets[i].swimmer = target_data.swimmer
              /\ Targets[i].week_start = target_data.week_start
        THEN [i \in DOMAIN Targets |->
                 IF /\ Targets[i].swimmer = target_data.swimmer
                    /\ Targets[i].week_start = target_data.week_start
                 THEN target_data ELSE Targets[i]]
        ELSE append_row(Targets, target_data)
    /\ UNCHANGED <<Sessions, CSSTests>>

save_target(target_data) ==
    /\ Targets' = append_row(Targets, target_data)
    /\ UNCHANGED <<Sessions, CSSTests>>

\* worksheet.get_all_records() as a DataFrame
load_sessions == Sessions

----------------------------------------------------------------------------
(* Log Session page *)

log_session_page(date_str, distance_m, rpe, swimmer) ==
    /\ TotalRows < MaxRows
    /\ page' = "Log Session"
    /\ inputs' = [date_str |-> date_str, distance_m |-> distance_m,
                  rpe |-> rpe, swimmer |-> swimmer]
    /\ LET date == strptime(date_str)
       IN  IF date = ValueError
           THEN /\ message' = "Invalid date format. Please use dd-mmm-yy"
                /\ UNCHANGED tables
           ELSE /\ save_session([date |-> str(date), distance_m |-> distance_m,
                                 rpe |-> rpe, swimmer |-> swimmer])
                /\ message' = "Session logged successfully!"
    /\ weekly_df' = <<>>
    /\ next_session' = <<>>
    /\ UNCHANGED training_schedule

----------------------------------------------------------------------------
(* CSS Test page *)

\* time_200_s > 0 or time_400_s > 0
valid_times_either(time_200_s, time_400_s) == RPos(time_200_s) \/ RPos(time_400_s)

\* time_400_s - time_200_s / 2
css_pace_unbracketed(time_200_s, time_400_s) ==
    RSub(time_400_s, RDiv(time_200_s, Num(2)))

\* time_200_s > 0 and time_400_s > 0
valid_times(time_200_s, time_400_s) == RPos(time_200_s) /\ RPos(time_400_s)

\* (time_400_s - time_200_s) / 2
css_pace_of(time_200_s, time_400_s) == RDiv(RSub(time_400_s, time_200_s), Num(2))

css_test_page(swimmer, time_200_s, time_400_s) ==
    /\ TotalRows < MaxRows
    /\ page' = "CSS Test"
    /\ inputs' = [swimmer |-> swimmer, time_200_s |-> time_200_s,
                  time_400_s |-> time_400_s]
    /\ IF valid_times(time_200_s, time_400_s)
       THEN LET css_pace == css_pace_of(time_200_s, time_400_s)
            IN  /\ save_css_test([swimmer |-> swimmer,
                                  time_200_s |-> time_200_s,
                                  time_400_s |-> time_400_s,
                                  css_s_per_100 |-> css_pace])
                /\ message' = "CSS Pace"
       ELSE /\ message' = "Please enter valid times."
            /\ UNCHANGED tables
    /\ weekly_df' = <<>>
    /\ next_session' = <<>>
    /\ UNCHANGED training_schedule

----------------------------------------------------------------------------
(* Targets page *)

targets_page(week_start, swimmer, km_target) ==
    /\ TotalRows < MaxRows
    /\ page' = "Targets"
    /\ inputs' = [week_start |-> week_start, swimmer |-> swimmer,
                  km_target |-> km_target]
    /\ save_target([week_start |-> str(week_start), swimmer |-> swimmer,
                    km_target |-> km_target])
    /\ message' = "Target set!"
    /\ weekly_df' = <<>>
    /\ next_session' = <<>>
    /\ UNCHANGED training_schedule

----------------------------------------------------------------------------
(* Dashboard page: the weekly aggregation *)

\* df: the loaded rows with the derived columns date, distance_km, load, week
derive(row) ==
    LET date == to_datetime(row.date)
        distance_km == RDiv(Num(row.distance_m), Num(1000))
    IN  [date |-> date,
         swimmer |-> row.swimmer,
         rpe |-> row.rpe,
         distance_km |-> distance_km,
         load |-> RMul(distance_km, Num(row.rpe)),
         week |-> week_start_time(date)]

derived_df(sessions_df) == [i \in DOMAIN sessions_df |-> derive(sessions_df[i])]

\* position of a swimmer name in string order
SwimmerRank(swimmer) == CHOOSE i \in DOMAIN SwimmerOptions : SwimmerOptions[i] = swimmer

\* the keys of df.groupby(['week', 'swimmer'])
group_keys(df) == { <<df[i].week, df[i].swimmer>> : i \in DOMAIN df }

KeyLess(a, b) ==
    \/ a[1] < b[1]
    \/ a[1] = b[1] /\ SwimmerRank(a[2]) < SwimmerRank(b[2])

RECURSIVE sorted_keys(_)
\* groupby sorts its group keys
sorted_keys(keys) ==
    IF keys = {} THEN <<>>
    ELSE LET first == CHOOSE k \in keys : \A o \in keys \ {k} : KeyLess(k, o)
         IN  <<first>> \o sorted_keys(keys \ {first})

\* the rows of a week, whoever swam them
group_rows_by_week(df, key) == SelectSeq(df, LAMBDA r : r.week = key[1])

\* the rows of one group, in the order of df
group_rows(df, key) ==
    SelectSeq(df, LAMBDA r : r.week = key[1] /\ r.swimmer = key[2])

RECURSIVE agg_sum(_)
\* 'sum' over a column, row by row
agg_sum(column) ==
    IF column = <<>> THEN Num(0)
    ELSE RAdd(agg_sum(SubSeq(column, 1, Len(column) - 1)), column[Len(column)])

\* 'first' over a column
agg_first(column) == column[1]

\* 'mean' over a column
agg_mean(column) == RDiv(agg_sum(column), Num(Len(column)))

\* 'std' over a column: the sample standard deviation (ddof = 1), NaN for a
\* group of one row
agg_std(column) ==
    IF Len(column) < 2 THEN NaN
    ELSE LET mean == agg_mean(column)
             sq == [i \in DOMAIN column |->
                       RMul(RSub(column[i], mean), RSub(column[i], mean))]
         IN  Root(RDiv(agg_sum(sq), Num(Len(column) - 1)))

\* Series.replace(0, 1) on one value
replace_0_1(x) == IF ~x.nan /\ x.sq = Num(0) THEN Root(Num(1)) ELSE x

\* mean_rpe / std: a positive rational over a real
divide(p, x) == IF x.nan THEN NaN ELSE Root(RDiv(RMul(p, p), x.sq))

\* monotony * total_load: a real times a non-negative rational
times(x, p) == IF x.nan THEN NaN ELSE Root(RMul(x.sq, RMul(p, p)))

\* one row of weekly_df
weekly_row(df, key) ==
    LET rows == group_rows(df, key)
        rpe == [i \in DOMAIN rows |-> Num(rows[i].rpe)]
        total_distance_km == agg_sum([i \in DOMAIN rows |-> rows[i].distance_km])
        total_load == agg_sum([i \in DOMAIN rows |-> rows[i].load])
        mean_rpe == agg_mean(rpe)
        std_rpe == agg_std(rpe)
        monotony == divide(mean_rpe, replace_0_1(std_rpe))
    IN  [week |-> key[1],
         swimmer |-> key[2],
         total_distance_km |-> total_distance_km,
         total_load |-> total_load,
         mean_rpe |-> mean_rpe,
         std_rpe |-> std_rpe,
         monotony |-> monotony,
         strain |-> times(monotony, total_load)]

\* weekly_df as computed from the loaded sessions
weekly(sessions_df) ==
    LET df == derived_df(sessions_df)
        keys == sorted_keys(group_keys(df))
    IN  [k \in DOMAIN keys |-> weekly_row(df, keys[k])]

----------------------------------------------------------------------------
(* Dashboard page: the next training session *)

Desc(day, text) == <<DayName[day + 1], text>>

\* the schedule dict of the dashboard
schedule_literal ==
    [d \in 0..6 |->
        CASE d = 0 -> Desc(0, "All swimmers, 5:45pm @ Claremont Pool")
          [] d = 1 -> Desc(1, "No training")
          [] d = 2 -> Desc(2, "Masters session, 6:00pm @ Scarborough Pool")
          [] d = 3 -> Desc(3, "No training")
          [] d = 4 -> Desc(4, "Technique session, 5:30pm @ Bold Park")
          [] d = 5 -> Desc(5, "Long swim, 7:00am @ Claremont Pool")
          [] d = 6 -> Desc(6, "Recovery swim, 8:00am @ Claremont Pool")]

\* every dict of that shape: each day keeps its entry or is "No training"
Schedules ==
    { [d \in 0..6 |-> IF d \in off THEN Desc(d, "No training")
                      ELSE IF schedule_literal[d][2] = "No training"
                           THEN Desc(d, "Squad session")
                           ELSE schedule_literal[d]] : off \in SUBSET (0..6) }

\* "No training" in description
has_no_training(description) ==
    \E i \in DOMAIN description : description[i] = "No training"

\* description.replace(old, new)
replace(description, old, new) ==
    [i \in DOMAIN description |-> IF description[i] = old THEN new ELSE description[i]]

RECURSIVE replace_day_names(_, _, _)
\* the chain .replace("Monday", day_name) ... .replace("Sunday", day_name)
replace_day_names(description, day_name, d) ==
    IF d > 7 THEN description
    ELSE replace_day_names(replace(description, DayName[d], day_name), day_name, d + 1)

RECURSIVE find_next_day(_, _, _, _)
\* the while loop: the values of next_day and days_ahead when it is left
find_next_day(schedule, current_day, next_day, days_ahead) ==
    IF days_ahead < 7
    THEN LET nd == (current_day + days_ahead) % 7
         IN  IF ~has_no_training(schedule[nd])
             THEN [next_day |-> nd, days_ahead |-> days_ahead]
             ELSE find_next_day(schedule, current_day, nd, days_ahead + 1)
    ELSE [next_day |-> next_day, days_ahead |-> days_ahead]

\* the lookup with a scan that starts at tomorrow
next_training_session_from_tomorrow(schedule, today) ==
    LET current_day == weekday(today)
        found == find_next_day(schedule, current_day, current_day, 1)
        next_date == date_add(today, found.days_ahead)
        day_name == strftime_A(next_date)
        session_info == replace_day_names(schedule[found.next_day], day_name, 1)
    IN  <<strftime_a_d_b(next_date), session_info>>

\* the two lines written in the third column
next_training_session(schedule, today) ==
    LET current_day == weekday(today)
        found == find_next_day(schedule, current_day, current_day, 0)
        next_date == date_add(today, found.days_ahead)
        day_name == strftime_A(next_date)
        session_info == replace_day_names(schedule[found.next_day], day_name, 1)
    IN  <<strftime_a_d_b(next_date), session_info>>

dashboard_page(today) ==
    /\ page' = "Dashboard"
    /\ inputs' = [today |-> today]
    /\ LET sessions_df == load_sessions
       IN  IF sessions_df = <<>>
           THEN /\ message' = "No sessions logged yet."
                /\ weekly_df' = <<>>
                /\ next_session' = <<>>
           ELSE /\ message' = ""
                /\ weekly_df' = weekly(sessions_df)
                /\ next_session' = next_training_session(training_schedule, today)
    /\ UNCHANGED <<tables, training_schedule>>

----------------------------------------------------------------------------
(* Specifications *)

NoView ==
    /\ page = ""
    /\ inputs = <<>>
    /\ message = ""
    /\ weekly_df = <<>>
    /\ next_session = <<>>

\* the application on an empty spreadsheet
Init ==
    /\ Sessions = <<>>
    /\ CSSTests = <<>>
    /\ Targets = <<>>
    /\ training_schedule = schedule_literal
    /\ NoView

Next ==
    \/ \E date_str \in DateTexts : log_session_page(date_str, 1000, 4, "BVH")
    \/ \E today \in ClockInputs : dashboard_page(today)
    \/ \E time_200_s \in TimeInputs, time_400_s \in TimeInputs :
            css_test_page("BVH", time_200_s, time_400_s)
    \/ \E km_target \in KmTargetInputs :
            targets_page([year |-> 2025, month |-> 11, day |-> 3], "BVH", km_target)

Spec == Init /\ [][Next]_vars

\* sessions of two swimmers over two weeks, and the dashboard over them
NextAggregate ==
    \/ \E date_str \in ValidDateTexts, session \in SessionInputs :
            log_session_page(date_str, session[2], session[3], session[1])
    \/ dashboard_page([year |-> 2025, month |-> 11, day |-> 5])

SpecAggregate == Init /\ [][NextAggregate]_vars

\* the dashboard on a sheet of one session, for every schedule dict and weekday
InitLookup ==
    /\ Sessions = <<[date |-> <<2025, 11, 4>>, distance_m |-> 1000,
                     rpe |-> 4, swimmer |-> "BVH"]>>
    /\ CSSTests = <<>>
    /\ Targets = <<>>
    /\ training_schedule \in Schedules
    /\ NoView

NextLookup == \E today \in WeekClockInputs : dashboard_page(today)

SpecLookup == InitLookup /\ [][NextLookup]_vars

----------------------------------------------------------------------------
(* Properties *)

Last(s) == s[Len(s)]
Range(s) == { s[i] : i \in DOMAIN s }

\* b is a with exactly one row added at its end
OneAppended(a, b) == Len(b) = Len(a) + 1 /\ SubSeq(b, 1, Len(a)) = a

\* b is a with rows added at its end, or a itself
Extended(a, b) == Len(b) >= Len(a) /\ SubSeq(b, 1, Len(a)) = a

\* every order the rows of s can be in
Reorderings(s) == { [i \in DOMAIN s |-> s[p[i]]] : p \in Permutations(DOMAIN s) }

\* the week (its Monday, as an ordinal) of a Sessions row
WeekOf(row) == week_start_time(to_datetime(row.date))

\* the rpe values of the Sessions rows of one (week, swimmer) bucket
BucketRpes(week, swimmer) ==
    { Sessions[i].rpe :
        i \in { j \in DOMAIN Sessions :
                  WeekOf(Sessions[j]) = week /\ Sessions[j].swimmer = swimmer } }

RECURSIVE TotalDistanceM(_, _)
\* distance_m summed over the first n rows
TotalDistanceM(rows, n) ==
    IF n = 0 THEN 0 ELSE TotalDistanceM(rows, n - 1) + rows[n].distance_m

RECURSIVE TotalKm(_, _)
\* total_distance_km summed over the first n buckets
TotalKm(buckets, n) ==
    IF n = 0 THEN Num(0)
    ELSE RAdd(TotalKm(buckets, n - 1), buckets[n].total_distance_km)

\* C1: a CSS Test submission whose two times are both above zero appends
\* exactly one record to CSSTests, and that record holds the submitted times
\* and a css_s_per_100 equal to (time_400_s - time_200_s) / 2.
C1_CssRecorded ==
    [][ (/\ page' = "CSS Test"
         /\ RPos(inputs'.time_200_s)
         /\ RPos(inputs'.time_400_s))
        => /\ OneAppended(CSSTests, CSSTests')
           /\ LET r == Last(CSSTests')
              IN  /\ r.time_200_s = inputs'.time_200_s
                  /\ r.time_400_s = inputs'.time_400_s
                  /\ RAdd(r.css_s_per_100, r.css_s_per_100)
                        = RSub(r.time_400_s, r.time_200_s) ]_vars

\* 200 m in 60 s and 400 m in 130 s were submitted and recorded as 35 s/100
C1_Witness ==
    /\ page = "CSS Test"
    /\ inputs.time_200_s = Num(60)
    /\ inputs.time_400_s = Num(130)
    /\ CSSTests # <<>>
    /\ Last(CSSTests).css_s_per_100 = Num(35)

\* C2: a CSS Test submission with a time that is zero or less is answered
\* with the error and leaves CSSTests, Sessions and Targets as they were.
C2_NonPositiveRejected ==
    [][ (/\ page' = "CSS Test"
         /\ ~(RPos(inputs'.time_200_s) /\ RPos(inputs'.time_400_s)))
        => /\ message' = "Please enter valid times."
           /\ tables' = tables ]_vars

\* a zero 200 m time was refused on a sheet that already holds a test
C2_Witness ==
    /\ page = "CSS Test"
    /\ inputs.time_200_s = Num(0)
    /\ inputs.time_400_s = Num(130)
    /\ message = "Please enter valid times."
    /\ CSSTests # <<>>

\* C3: every bucket of the weekly aggregate whose sessions all have the same
\* rpe, a bucket of one session included, has a monotony that is a number and
\* equals its mean_rpe.
C3_ZeroVarianceMonotony ==
    page = "Dashboard" =>
        \A k \in DOMAIN weekly_df :
            Cardinality(BucketRpes(weekly_df[k].week, weekly_df[k].swimmer)) = 1
            => /\ ~weekly_df[k].monotony.nan
               /\ weekly_df[k].monotony = AsRoot(weekly_df[k].mean_rpe)

C5_DistanceConserved ==
    page = "Dashboard" =>
        TotalKm(weekly_df, Len(weekly_df))
            = RDiv(Num(TotalDistanceM(Sessions, Len(Sessions))), Num(1000))

\* three sessions in three buckets, two swimmers in one week
C5_Witness ==
    /\ page = "Dashboard"
    /\ Len(Sessions) = 3
    /\ Len(weekly_df) = 3
    /\ weekly_df[1].week = weekly_df[2].week

C7_FirstTrainingDay ==
    (/\ page = "Dashboard"
     /\ \E d \in 0..6 : training_schedule[d][2] # "No training")
    => LET today == inputs.today
           Trains(k) == training_schedule[(weekday(today) + k) % 7][2] # "No training"
           k == CHOOSE k \in 0..6 : Trains(k) /\ \A j \in 0..(k - 1) : ~Trains(j)
           next_date == date_add(today, k)
       IN  next_session
             = <<strftime_a_d_b(next_date), training_schedule[weekday(next_date)]>>

\* the only training day is six days after today, in the next month
C7_Witness ==
    /\ page = "Dashboard"
    /\ inputs.today = [year |-> 2025, month |-> 11, day |-> 26]
    /\ \A d \in 0..6 : (training_schedule[d][2] # "No training") <=> (d = 1)
    /\ next_session[1] = <<"Tue", 2, "Dec">>

\* C8: a Log Session submission whose date text is not a dd-mmm-yy date is
\* answered with the error and leaves Sessions as it was; one whose date text
\* is such a date appends exactly one row to Sessions.
C8_DateValidated ==
    [][ page' = "Log Session"
        => IF inputs'.date_str \in ValidDateTexts
           THEN /\ OneAppended(Sessions, Sessions')
                /\ message' = "Session logged successfully!"
           ELSE /\ Sessions' = Sessions
                /\ message' = "Invalid date format. Please use dd-mmm-yy" ]_vars

\* 31-Nov-25 was refused on a sheet that already holds a session
C8_Witness ==
    /\ page = "Log Session"
    /\ inputs.date_str = DateText(31, "-", "Nov", 25)
    /\ message = "Invalid date format. Please use dd-mmm-yy"
    /\ Sessions # <<>>

\* C9: every step leaves each worksheet as it was or with rows added at its
\* end; an accepted submission adds exactly one row to its own worksheet and
\* none to the others, a refused one and a dashboard render add none, and a
\* target is added even when the swimmer already has one for that week.
C9_AppendOnly ==
    [][ /\ Extended(Sessions, Sessions')
        /\ Extended(CSSTests, CSSTests')
        /\ Extended(Targets, Targets')
        /\ page' = "Dashboard" => tables' = tables
        /\ page' = "Log Session" =>
              /\ UNCHANGED <<CSSTests, Targets>>
              /\ IF message' = "Session logged successfully!"
                 THEN OneAppended(Sessions, Sessions')
                 ELSE Sessions' = Sessions
        /\ page' = "CSS Test" =>
              /\ UNCHANGED <<Sessions, Targets>>
              /\ IF message' = "CSS Pace"
                 THEN OneAppended(CSSTests, CSSTests')
                 ELSE CSSTests' = CSSTests
        /\ page' = "Targets" =>
              /\ UNCHANGED <<Sessions, CSSTests>>
              /\ OneAppended(Targets, Targets')
              /\ Last(Targets').swimmer = inputs'.swimmer
              /\ Last(Targets').week_start = str(inputs'.week_start)
              /\ Last(Targets').km_target = inputs'.km_target ]_vars

\* two targets of one swimmer for one week stand side by side
C9_Witness ==
    /\ Len(Targets) = 2
    /\ Targets[1].swimmer = Targets[2].swimmer
    /\ Targets[1].week_start = Targets[2].week_start
    /\ Targets[1].km_target # Targets[2].km_target

\* C10: no record of CSSTests has a css_s_per_100 below zero.
C10_NoNegativePace ==
    \A i \in DOMAIN CSSTests : ~RLess(CSSTests[i].css_s_per_100, Num(0))

====
